---- MODULE Spec2Model ----
(***************************************************************************)
(* A model of the MDX container parser and record-resolution engine of     *)
(* src/src/parser.rs: the fast cipher, the loader pipeline (key-block      *)
(* info, key entries, record index) and the lookup engine with its record  *)
(* cache.  Bytes are integers 0..255; byte strings are sequences of bytes. *)
(***************************************************************************)
EXTENDS Integers, Sequences, FiniteSets, TLC

VARIABLES
    plain,      \* cipher: the byte string handed to fast_decrypt
    key,        \* cipher: the key
    passes,     \* cipher: the outputs of successive fast_decrypt applications
    file,       \* lookup: the bytes of the record-data section of the file
    mdx,        \* lookup: the two handles (cache enabled / disabled) over `file`
    last,       \* lookup: the last lookup call and what each handle returned
    hist,       \* lookup: what has happened on the handles so far
    locator,    \* locator: a record table, an entry offset, record_offset's answer
    input,      \* load: the file given to load
    outcome     \* load: what load returned

vars == <<plain, key, passes, file, mdx, last, hist, locator, input, outcome>>
cipherVars == <<plain, key, passes>>
lookupVars == <<file, mdx, last, hist>>
loadVars == <<input, outcome>>

(***************************************************************************)
(* Byte primitives.                                                        *)
(***************************************************************************)
RECURSIVE XorBits(_, _, _)
XorBits(a, b, n) ==
    IF n = 0 THEN 0
    ELSE (((a % 2) + (b % 2)) % 2) + 2 * XorBits(a \div 2, b \div 2, n - 1)

\* u8 ^ u8
Xor(a, b) == XorBits(a, b, 8)

\* buf[i] >> 4 | buf[i] << 4 on a u8: the two nibbles swapped
rotate_nibbles(b) == (b \div 16) + 16 * (b % 16)

Drop(s, n) == SubSeq(s, n + 1, Len(s))
Take(s, n) == SubSeq(s, 1, n)

\* a variant that chains on the byte written instead of the byte read
fast_decrypt_prev_is_output(encrypted, k) ==
    LET RECURSIVE go(_, _)
        go(prev, buf) ==
            IF Len(buf) = Len(encrypted) THEN buf
            ELSE LET i == Len(buf) + 1
                     t == Xor(Xor(Xor(rotate_nibbles(encrypted[i]), prev), (i - 1) % 256),
                              k[((i - 1) % Len(k)) + 1])
                 IN go(t, Append(buf, t))
    IN go(54, <<>>)

(***************************************************************************)
(* fast_decrypt: the loop keeps `prev`, the INPUT byte of the previous     *)
(* index (0x36 before the first), and writes                               *)
(*    t = rot(buf[i]) ^ prev ^ (i as u8) ^ key[i % key.len()].             *)
(* Indices here are 1-based, so the source's i is i - 1.                   *)
(***************************************************************************)
fast_decrypt(encrypted, k) ==
    LET RECURSIVE go(_, _)
        go(prev, buf) ==                \* buf: the bytes written so far
            IF Len(buf) = Len(encrypted) THEN buf
            ELSE LET i == Len(buf) + 1
                     t == Xor(Xor(Xor(rotate_nibbles(encrypted[i]), prev), (i - 1) % 256),
                              k[((i - 1) % Len(k)) + 1])
                 IN go(encrypted[i], Append(buf, t))
    IN go(54, <<>>)

(***************************************************************************)
(* The transform fast_decrypt undoes: out[i] = rot(b[i] ^ prev ^ i ^ k[i]) *)
(* with prev the previous OUTPUT byte (0x36 before the first).             *)
(***************************************************************************)
fast_encrypt(b, k) ==
    LET RECURSIVE go(_)
        go(out) ==
            IF Len(out) = Len(b) THEN out
            ELSE LET i == Len(out) + 1
                     prev == IF i = 1 THEN 54 ELSE out[i - 1]
                 IN go(Append(out, rotate_nibbles(
                                      Xor(Xor(Xor(b[i], prev), (i - 1) % 256),
                                          k[((i - 1) % Len(k)) + 1]))))
    IN go(<<>>)

(***************************************************************************)
(* Results.  A Result<Vec<u8>> is Ok(bytes) or Err(kind); a panic (a slice  *)
(* index out of range) is kept apart from both: it is not a returned value. *)
(***************************************************************************)
Ok(b) == [tag |-> "Ok", err |-> "", bytes |-> b]
Err(e) == [tag |-> "Err", err |-> e, bytes |-> <<>>]
Panic == [tag |-> "Panic", err |-> "", bytes |-> <<>>]

\* RollingAdler32::from_buffer(data).hash(), as its four big-endian bytes
adler32(data) ==
    LET RECURSIVE go(_, _)
        \* ab = <<a, b>>, the two running sums; a is never negative, and
        \* reading it at every step keeps the sums evaluated as the loop goes
        go(i, ab) ==
            IF i > Len(data) \/ ab[1] < 0
            THEN <<ab[2] \div 256, ab[2] % 256, ab[1] \div 256, ab[1] % 256>>
            ELSE LET a2 == (ab[1] + data[i]) % 65521
                 IN go(i + 1, <<a2, (ab[2] + a2) % 65521>>)
    IN go(1, <<1, 0>>)

\* a variant that accepts every checksum
check_adler32_unchecked(data, checksum) == Ok(data)

\* the checksum is compared as its four big-endian bytes (BE::read_u32 of them)
check_adler32(data, checksum) ==
    IF adler32(data) # checksum THEN Err("InvalidCheckSum") ELSE Ok(data)

\* read_exact of len bytes at pos: too few bytes left is the reader's error,
\* and the reader is then at the end of the file
read_buf(data, pos, len) ==
    IF pos + len <= Len(data)
    THEN [r |-> Ok(SubSeq(data, pos + 1, pos + len)), pos |-> pos + len]
    ELSE [r |-> Err("Io"), pos |-> IF pos > Len(data) THEN pos ELSE Len(data)]

(***************************************************************************)
(* The codecs of other crates.  Only what decode_block relies on is kept:   *)
(* each is a function of its input.  The digest and the key stream stand    *)
(* for RIPEMD-128 and Salsa20; inflate and LZO accept the streams that hold *)
(* one stored block / one literal run, and reject every other byte string   *)
(* of the model.                                                            *)
(***************************************************************************)
ripemd128(data) ==
    LET RECURSIVE sum(_)
        sum(i) == IF i > Len(data) THEN 0 ELSE data[i] + sum(i + 1)
    IN [i \in 1..16 |-> (sum(1) + 37 * i) % 256]

salsa20_apply_keystream(k, data) ==
    [i \in 1..Len(data) |-> Xor(data[i], k[((i - 1) % Len(k)) + 1])]

\* zlib: 78 01, one final stored block (01, LEN, ~LEN, data), Adler-32
zlib_decode(c) ==
    IF Len(c) < 11 THEN Err("InvalidData")
    ELSE LET len == c[4] + 256 * c[5]
         IN IF /\ c[1] = 120
               /\ (c[1] * 256 + c[2]) % 31 = 0
               /\ (c[2] \div 32) % 2 = 0
               /\ c[3] = 1
               /\ c[6] + 256 * c[7] = 65535 - len
               /\ Len(c) = 11 + len
               /\ SubSeq(c, 8 + len, 11 + len) = adler32(SubSeq(c, 8, 7 + len))
            THEN Ok(SubSeq(c, 8, 7 + len))
            ELSE Err("InvalidData")

\* LZO1X: one literal run (17 + n, n bytes) and the end marker 11 00 00
lzo_decompress(c, decompressed_size) ==
    IF Len(c) < 5 THEN Err("InvalidData")
    ELSE LET n == c[1] - 17
         IN IF /\ n >= 1
               /\ Len(c) = n + 4
               /\ n <= decompressed_size
               /\ SubSeq(c, n + 2, n + 4) = <<17, 0, 0>>
            THEN Ok(SubSeq(c, 2, n + 1))
            ELSE Err("InvalidData")

(***************************************************************************)
(* decode_block: an 8-byte prefix (encoding word, checksum bytes), then the *)
(* payload up to compressed_size: decrypt, decompress, verify Adler-32.     *)
(***************************************************************************)
make_key(checksum_bytes) == ripemd128(checksum_bytes)

decode_block(slice, compressed_size, decompressed_size) ==
    IF Len(slice) < 8 THEN Panic                 \* &slice[0..4], &slice[4..8]
    ELSE IF compressed_size < 8 \/ compressed_size > Len(slice)
    THEN Panic                                   \* &slice[8..compressed_size]
    ELSE
        LET encryption_method == (slice[1] \div 16) % 16
            compress_method == slice[1] % 16
            checksum_bytes == SubSeq(slice, 5, 8)
            encrypted == SubSeq(slice, 9, compressed_size)
            compressed ==
                CASE encryption_method = 0 -> Ok(encrypted)
                  [] encryption_method = 1 ->
                        Ok(fast_decrypt(encrypted, make_key(checksum_bytes)))
                  [] encryption_method = 2 ->
                        Ok(salsa20_apply_keystream(make_key(checksum_bytes), encrypted))
                  [] OTHER -> Err("InvalidEncryptMethod")
            decompressed ==
                CASE compress_method = 0 -> compressed
                  [] compress_method = 1 ->
                        lzo_decompress(compressed.bytes, decompressed_size)
                  [] compress_method = 2 -> zlib_decode(compressed.bytes)
                  [] OTHER -> Err("InvalidCompressMethod")
        IN IF compressed.tag # "Ok" THEN compressed
           ELSE IF decompressed.tag # "Ok" THEN decompressed
           ELSE check_adler32(decompressed.bytes, checksum_bytes)

(***************************************************************************)
(* The record-block locator.                                               *)
(***************************************************************************)
NoOffset ==
    [found |-> FALSE, buf_offset |-> 0, block_offset |-> 0,
     record_size |-> 0, decomp_size |-> 0]

\* a variant whose range test takes the end of a block as inside it
record_offset_inclusive(records_info, entry) ==
    LET RECURSIVE scan(_, _, _)
        scan(i, block_offset, buf_offset) ==
            IF i > Len(records_info) THEN NoOffset
            ELSE LET info == records_info[i]
                 IN IF entry.offset <= block_offset + info.decompressed_size
                    THEN [found |-> TRUE,
                          buf_offset |-> buf_offset,
                          block_offset |-> entry.offset - block_offset,
                          record_size |-> info.compressed_size,
                          decomp_size |-> info.decompressed_size]
                    ELSE scan(i + 1, block_offset + info.decompressed_size,
                              buf_offset + info.compressed_size)
    IN scan(1, 0, 0)

record_offset(records_info, entry) ==
    LET RECURSIVE scan(_, _, _)
        scan(i, block_offset, buf_offset) ==
            IF i > Len(records_info) THEN NoOffset
            ELSE LET info == records_info[i]
                 IN IF entry.offset < block_offset + info.decompressed_size
                    THEN [found |-> TRUE,
                          buf_offset |-> buf_offset,
                          block_offset |-> entry.offset - block_offset,
                          record_size |-> info.compressed_size,
                          decomp_size |-> info.decompressed_size]
                    ELSE scan(i + 1, block_offset + info.decompressed_size,
                              buf_offset + info.compressed_size)
    IN scan(1, 0, 0)

(***************************************************************************)
(* The lookup engine.  A handle (Mdx) is                                    *)
(*   [key_entries, records_info, record_block_offset, pos, record_cache]    *)
(* with pos the reader's position in the file and record_cache either       *)
(* absent (some = FALSE) or a map buf_offset -> decoded block bytes.        *)
(***************************************************************************)
NoCache == [some |-> FALSE, map |-> <<>>]
EmptyCache == [some |-> TRUE, map |-> <<>>]

Insert(map, k, v) == [b \in DOMAIN map \cup {k} |-> IF b = k THEN v ELSE map[b]]

\* a variant that seeks from the start of the file, not of the record data
read_record_from_file_start(f, m, offset) ==
    LET rb == read_buf(f, offset.buf_offset, offset.record_size)
    IN [pos |-> rb.pos,
        r |-> IF rb.r.tag = "Ok"
              THEN decode_block(rb.r.bytes, offset.record_size, offset.decomp_size)
              ELSE rb.r]

\* seek(Start(record_block_offset + buf_offset)), read_buf, decode_block
read_record(f, m, offset) ==
    LET rb == read_buf(f, m.record_block_offset + offset.buf_offset, offset.record_size)
    IN [pos |-> rb.pos,
        r |-> IF rb.r.tag = "Ok"
              THEN decode_block(rb.r.bytes, offset.record_size, offset.decomp_size)
              ELSE rb.r]

\* &data[block_offset..]
slice_from(data, block_offset) ==
    IF block_offset > Len(data) THEN Panic ELSE Ok(Drop(data, block_offset))

\* a variant that stores the returned slice in place of the whole block
find_definition_caches_slice(f, m, offset) ==
    IF m.record_cache.some
    THEN IF offset.buf_offset \in DOMAIN m.record_cache.map
         THEN [mdx |-> m,
               res |-> slice_from(m.record_cache.map[offset.buf_offset], offset.block_offset)]
         ELSE LET rr == read_record(f, m, offset)
              IN IF rr.r.tag # "Ok"
                 THEN [mdx |-> [m EXCEPT !.pos = rr.pos], res |-> rr.r]
                 ELSE [mdx |-> [m EXCEPT !.pos = rr.pos,
                                         !.record_cache.map =
                                             Insert(@, offset.buf_offset,
                                                    slice_from(rr.r.bytes, offset.block_offset).bytes)],
                       res |-> slice_from(rr.r.bytes, offset.block_offset)]
    ELSE LET rr == read_record(f, m, offset)
         IN [mdx |-> [m EXCEPT !.pos = rr.pos],
             res |-> IF rr.r.tag # "Ok" THEN rr.r
                     ELSE IF offset.block_offset # 0
                     THEN slice_from(rr.r.bytes, offset.block_offset)
                     ELSE rr.r]

find_definition(f, m, offset) ==
    IF m.record_cache.some
    THEN IF offset.buf_offset \in DOMAIN m.record_cache.map
         THEN [mdx |-> m,
               res |-> slice_from(m.record_cache.map[offset.buf_offset], offset.block_offset)]
         ELSE LET rr == read_record(f, m, offset)
              IN IF rr.r.tag # "Ok"
                 THEN [mdx |-> [m EXCEPT !.pos = rr.pos], res |-> rr.r]
                 ELSE [mdx |-> [m EXCEPT !.pos = rr.pos,
                                         !.record_cache.map =
                                             Insert(@, offset.buf_offset, rr.r.bytes)],
                       res |-> slice_from(rr.r.bytes, offset.block_offset)]
    ELSE LET rr == read_record(f, m, offset)
         IN [mdx |-> [m EXCEPT !.pos = rr.pos],
             res |-> IF rr.r.tag # "Ok" THEN rr.r
                     ELSE IF offset.block_offset # 0
                     THEN slice_from(rr.r.bytes, offset.block_offset)
                     ELSE rr.r]

\* binary_search_by on the sorted key_entries: Ok(idx) for some idx whose text
\* is the key (which one is unspecified when several match), else no index (0)
binary_search(key_entries, k) ==
    LET hits == {i \in 1..Len(key_entries) : key_entries[i].text = k}
    IN IF hits = {} THEN {0} ELSE hits

\* a lookup's outcome: Ok(Some(bytes)), Ok(None), Err(kind), or a panic
Some(b) == [tag |-> "Some", err |-> "", bytes |-> b]
None == [tag |-> "None", err |-> "", bytes |-> <<>>]

\* lookup_record, with idx the index binary_search_by gave
lookup_record(f, m, idx) ==
    IF idx = 0 THEN [mdx |-> m, res |-> None, off |-> NoOffset]
    ELSE LET entry == m.key_entries[idx]
             offset == record_offset(m.records_info, entry)
         IN IF ~offset.found THEN [mdx |-> m, res |-> None, off |-> offset]
            ELSE LET fd == find_definition(f, m, offset)
                 IN [mdx |-> fd.mdx,
                     res |-> IF fd.res.tag = "Ok" THEN Some(fd.res.bytes) ELSE fd.res,
                     off |-> offset]

(***************************************************************************)
(* The loader.  The header attributes and the two sizes of the key-block    *)
(* header are given as read values (`input`); everything after the          *)
(* key-block header is bytes (`input.rest`), read from position 0.          *)
(***************************************************************************)
SizeCap == 1000000

\* BE::read_u32 / read_u64 / read_u16 of the bytes; a value past SizeCap is
\* kept as SizeCap, which is past every length of the model
be_uint(bytes) ==
    LET RECURSIVE go(_, _)
        go(i, acc) ==
            IF i > Len(bytes) THEN acc
            ELSE LET v == acc * 256 + bytes[i]
                 IN go(i + 1, IF v > SizeCap THEN SizeCap ELSE v)
    IN go(1, 0)

\* read_header: the Encrypted attribute, "Yes" -> 1, a u8 that parses -> it,
\* anything else or no attribute -> 0
header_encrypted(attr) ==
    CASE attr = "Yes" -> 1
      [] attr = "0" -> 0
      [] attr = "1" -> 1
      [] attr = "2" -> 2
      [] attr = "3" -> 3
      [] OTHER -> 0

read_header(in) ==
    [version |-> in.version, encrypted |-> header_encrypted(in.encrypted_attr),
     encoding |-> in.encoding]

size_width(header) == IF header.version = "V1" THEN 4 ELSE 8
num_bytes_width(header) == IF header.version = "V1" THEN 1 ELSE 2

\* Version::read_number
read_number(data, pos, header) ==
    LET rb == read_buf(data, pos, size_width(header))
    IN [r |-> rb.r, v |-> IF rb.r.tag = "Ok" THEN be_uint(rb.r.bytes) ELSE 0, pos |-> rb.pos]

\* decode_key_blocks::text_bytes
text_bytes(header, bytes) ==
    LET text_size == IF header.version = "V1" THEN bytes ELSE bytes + 1
    IN IF header.encoding = "UTF_16LE" THEN text_size * 2 ELSE text_size

\* a cursor over a slice: ok is FALSE once an index was out of range (a panic)
Cursor(s) == [ok |-> TRUE, v |-> 0, s |-> s]
Then(c, step(_)) == IF c.ok THEN step(c) ELSE c
\* read_size / read_num_bytes, then slice = &slice[delta..]
take_uint(c, w) ==
    IF Len(c.s) < w THEN [c EXCEPT !.ok = FALSE]
    ELSE [ok |-> TRUE, v |-> be_uint(Take(c.s, w)), s |-> Drop(c.s, w)]
\* slice = &slice[text_bytes(header, bytes)..]
skip_text(c, header) ==
    LET delta == text_bytes(header, c.v)
    IN IF delta > Len(c.s) THEN [c EXCEPT !.ok = FALSE]
       ELSE [c EXCEPT !.s = Drop(c.s, delta)]

decode_key_blocks(data, header) ==
    LET RECURSIVE go(_, _)
        go(slice, list) ==
            IF slice = <<>> THEN Ok(list)
            ELSE
                LET sw == size_width(header)
                    nw == num_bytes_width(header)
                    c1 == take_uint(Cursor(slice), sw)                       \* _num_entries
                    c2 == Then(c1, LAMBDA c : take_uint(c, nw))
                    c3 == Then(c2, LAMBDA c : skip_text(c, header))          \* first key
                    c4 == Then(c3, LAMBDA c : take_uint(c, nw))
                    c5 == Then(c4, LAMBDA c : skip_text(c, header))          \* last key
                    c6 == Then(c5, LAMBDA c : take_uint(c, sw))              \* compressed_size
                    c7 == Then(c6, LAMBDA c : take_uint(c, sw))              \* decompressed_size
                IN IF ~c7.ok THEN Panic
                   ELSE go(c7.s, Append(list, [compressed_size |-> c6.v,
                                               decompressed_size |-> c7.v]))
    IN go(data, <<>>)

\* the key of the key-block info: RIPEMD128(checksum bytes || 0x3695 as LE u32)
info_key(checksum_bytes) == ripemd128(checksum_bytes \o <<149, 54, 0, 0>>)

\* whether read_key_block_infos decrypts the info payload
decrypts_info(header) == header.encrypted = 2

\* the reader's error of zlib::Decoder::read_to_end(..)?
io_error(r) == IF r.tag = "Err" THEN Err("Io") ELSE r

read_key_block_infos(data, pos, size, header) ==
    LET rb == read_buf(data, pos, size)
        buf == rb.r.bytes
    IN IF rb.r.tag # "Ok" THEN [r |-> rb.r, pos |-> rb.pos, decrypted |-> "unread"]
       ELSE IF header.version = "V1"
       THEN [r |-> decode_key_blocks(buf, header), pos |-> rb.pos, decrypted |-> "no"]
       ELSE IF Len(buf) < 4 THEN [r |-> Panic, pos |-> rb.pos, decrypted |-> "unread"]
       ELSE IF Take(buf, 4) # <<2, 0, 0, 0>>
       THEN [r |-> Err("InvalidData"), pos |-> rb.pos, decrypted |-> "unread"]
       ELSE IF Len(buf) < 8 THEN [r |-> Panic, pos |-> rb.pos, decrypted |-> "unread"]
       ELSE
           LET checksum == SubSeq(buf, 5, 8)
               dec == decrypts_info(header)
               info == IF dec
                       THEN io_error(zlib_decode(fast_decrypt(Drop(buf, 8), info_key(checksum))))
                       ELSE io_error(zlib_decode(Drop(buf, 8)))
               checked == IF info.tag # "Ok" THEN info
                          ELSE check_adler32(info.bytes, checksum)
           IN [r |-> IF checked.tag # "Ok" THEN checked
                     ELSE decode_key_blocks(checked.bytes, header),
               pos |-> rb.pos,
               decrypted |-> IF dec THEN "yes" ELSE "no"]

\* decode_slice_string: the text up to its terminator, and the bytes consumed
decode_slice_string(slice, encoding) ==
    IF encoding = "UTF_16LE"
    THEN LET RECURSIVE find(_)
             find(i) ==                       \* i is the source's i + 1
                 IF i > Len(slice) THEN [tag |-> "Err", at |-> 0]
                 ELSE IF slice[i] # 0 THEN find(i + 2)
                 ELSE IF i + 1 > Len(slice) THEN [tag |-> "Panic", at |-> 0]   \* slice[i + 1]
                 ELSE IF slice[i + 1] = 0 THEN [tag |-> "Ok", at |-> i - 1]
                 ELSE find(i + 2)
             f == find(1)
         IN IF f.tag = "Panic" THEN [r |-> Panic, idx |-> 0]
            ELSE IF f.tag = "Err" THEN [r |-> Err("InvalidData"), idx |-> 0]
            ELSE [r |-> Ok(Take(slice, f.at)), idx |-> f.at + 2]
    ELSE IF encoding = "UTF_8"
    THEN LET zeros == {i \in 1..Len(slice) : slice[i] = 0}
         IN IF zeros = {} THEN [r |-> Err("InvalidData"), idx |-> 0]
            ELSE LET z == CHOOSE i \in zeros : \A j \in zeros : i <= j
                 IN [r |-> Ok(Take(slice, z - 1)), idx |-> z]
    ELSE [r |-> Err("InvalidEncoding"), idx |-> 0]

\* the caller's KeyMaker: one that keeps the text, one that folds ASCII case
key_maker_make(maker, text) ==
    IF maker = "fold"
    THEN [i \in 1..Len(text) |-> IF text[i] >= 65 /\ text[i] <= 90 THEN text[i] + 32 ELSE text[i]]
    ELSE text

\* the (offset, text) pairs of one decompressed key block
parse_key_entries(decompressed, header, maker) ==
    LET RECURSIVE go(_, _)
        go(entries_slice, entries) ==
            IF entries_slice = <<>> THEN Ok(entries)
            ELSE IF Len(entries_slice) < size_width(header) THEN Panic   \* BE::read_u32/u64
            ELSE
                LET delta == size_width(header)
                    offset == be_uint(Take(entries_slice, delta))
                    rest == Drop(entries_slice, delta)
                    str == decode_slice_string(rest, header.encoding)
                IN IF str.r.tag # "Ok" THEN str.r
                   ELSE go(Drop(rest, str.idx),
                           Append(entries, [offset |-> offset,
                                            text |-> key_maker_make(maker, str.r.bytes)]))
    IN go(decompressed, <<>>)

\* a.text.cmp(&b.text) is not Greater: byte-wise lexicographic order
RECURSIVE TextLeq(_, _)
TextLeq(a, b) ==
    IF a = <<>> THEN TRUE
    ELSE IF b = <<>> THEN FALSE
    ELSE IF Head(a) # Head(b) THEN Head(a) < Head(b)
    ELSE TextLeq(Tail(a), Tail(b))

\* a variant that leaves the entries in file order
sort_by_text_skipped(entries) == entries

\* entries.sort_by(|a, b| a.text.cmp(&b.text)): a stable sort, each entry
\* placed after the entries whose text is not greater
sort_by_text(entries) ==
    LET RECURSIVE go(_, _)
        go(i, sorted) ==
            IF i > Len(entries) THEN sorted
            ELSE LET e == entries[i]
                     k == Cardinality({j \in 1..Len(sorted) : TextLeq(sorted[j].text, e.text)})
                 IN go(i + 1, Take(sorted, k) \o <<e>> \o Drop(sorted, k))
    IN go(1, <<>>)

read_key_entries(data, pos, size, header, entry_infos, maker) ==
    LET rb == read_buf(data, pos, size)
        RECURSIVE blocks(_, _, _)
        blocks(i, slice, entries) ==
            IF i > Len(entry_infos) THEN Ok(sort_by_text(entries))
            ELSE LET info == entry_infos[i]
                     decompressed == decode_block(slice, info.compressed_size,
                                                  info.decompressed_size)
                 IN IF decompressed.tag # "Ok" THEN decompressed
                    ELSE LET parsed == parse_key_entries(decompressed.bytes, header, maker)
                         IN IF parsed.tag # "Ok" THEN parsed
                            ELSE blocks(i + 1, Drop(slice, info.compressed_size),
                                        entries \o parsed.bytes)
    IN [r |-> IF rb.r.tag # "Ok" THEN rb.r ELSE blocks(1, rb.r.bytes, <<>>),
        pos |-> rb.pos]

read_record_blocks(data, pos, header) ==
    LET num_records == read_number(data, pos, header)
        num_entries == read_number(data, num_records.pos, header)
        record_info_size == read_number(data, num_entries.pos, header)
        record_data_size == read_number(data, record_info_size.pos, header)
        RECURSIVE pairs(_, _, _)
        pairs(i, p, records) ==
            IF i >= num_records.v THEN [r |-> Ok(records), pos |-> p]
            ELSE LET compressed_size == read_number(data, p, header)
                     decompressed_size == read_number(data, compressed_size.pos, header)
                 IN IF compressed_size.r.tag # "Ok"
                    THEN [r |-> compressed_size.r, pos |-> compressed_size.pos]
                    ELSE IF decompressed_size.r.tag # "Ok"
                    THEN [r |-> decompressed_size.r, pos |-> decompressed_size.pos]
                    ELSE pairs(i + 1, decompressed_size.pos,
                               Append(records,
                                      [compressed_size |-> compressed_size.v,
                                       decompressed_size |-> decompressed_size.v]))
    IN IF \E n \in {num_records, num_entries, record_info_size, record_data_size} :
              n.r.tag # "Ok"
       THEN [r |-> Err("Io"), pos |-> record_data_size.pos]
       ELSE pairs(0, record_data_size.pos, <<>>)

NoMdx ==
    [key_entries |-> <<>>, records_info |-> <<>>, record_block_offset |-> 0, pos |-> 0,
     record_cache |-> NoCache]

Failed(r, decrypted) ==
    [tag |-> r.tag, err |-> r.err, mdx |-> NoMdx, info_decrypted |-> decrypted]

\* load: the pipeline; the first stage that fails ends it and no Mdx is built
load(in) ==
    LET header == read_header(in)
        infos == read_key_block_infos(in.rest, 0, in.block_info_size, header)
        keys == read_key_entries(in.rest, infos.pos, in.key_block_size, header,
                                 infos.r.bytes, in.key_maker)
        records == read_record_blocks(in.rest, keys.pos, header)
    IN IF infos.r.tag # "Ok" THEN Failed(infos.r, infos.decrypted)
       ELSE IF keys.r.tag # "Ok" THEN Failed(keys.r, infos.decrypted)
       ELSE IF records.r.tag # "Ok" THEN Failed(records.r, infos.decrypted)
       ELSE [tag |-> "Ok", err |-> "",
             mdx |-> [key_entries |-> keys.r.bytes,
                      records_info |-> records.r.bytes,
                      record_block_offset |-> records.pos,
                      pos |-> records.pos,
                      record_cache |-> IF in.cache THEN EmptyCache ELSE NoCache],
             info_decrypted |-> infos.decrypted]

(***************************************************************************)
(* The cipher on its own: a byte string and a key are drawn, and           *)
(* fast_decrypt is applied to the string and then to its own output.       *)
(***************************************************************************)
MaxCipherLen == 3
CipherBytes == {0, 1, 54, 165, 255}
CipherKeys == {<<0>>, <<90, 195>>, <<255, 1, 54>>}

RECURSIVE SeqsUpTo(_, _)
SeqsUpTo(S, n) ==
    IF n = 0 THEN {<<>>}
    ELSE LET shorter == SeqsUpTo(S, n - 1)
         IN shorter \cup {Append(s, x) : s \in {t \in shorter : Len(t) = n - 1}, x \in S}

CipherIdle ==
    /\ plain = <<>>
    /\ key = <<0>>
    /\ passes = <<>>

LookupIdle ==
    /\ file = <<>>
    /\ mdx = <<>>
    /\ last = <<>>
    /\ hist = <<>>

LocatorIdle == locator = <<>>

LoadIdle ==
    /\ input = <<>>
    /\ outcome = <<>>

CipherInit ==
    /\ plain \in SeqsUpTo(CipherBytes, MaxCipherLen)
    /\ key \in CipherKeys
    /\ passes = <<>>
    /\ LookupIdle
    /\ LocatorIdle
    /\ LoadIdle

\* one more application of fast_decrypt, to the previous output
Decrypt ==
    /\ Len(passes) < 2
    /\ passes' = Append(passes,
                        fast_decrypt(IF passes = <<>> THEN plain ELSE passes[Len(passes)], key))
    /\ UNCHANGED <<plain, key, lookupVars, locator, loadVars>>

CipherNext == Decrypt

SpecCipher == CipherInit /\ [][CipherNext]_vars

(***************************************************************************)
(* The locator on its own: a record table and an entry offset are drawn,    *)
(* and record_offset is applied.                                            *)
(***************************************************************************)
MaxInfos == 2
MaxSize == 2
MaxEntryOffset == 5

SizeInfos ==
    {[compressed_size |-> c, decompressed_size |-> d] : c \in 0..MaxSize, d \in 0..MaxSize}

LocatorInit ==
    /\ locator \in {[records_info |-> r, offset |-> o, asked |-> FALSE, result |-> NoOffset] :
                        r \in SeqsUpTo(SizeInfos, MaxInfos), o \in 0..MaxEntryOffset}
    /\ CipherIdle
    /\ LookupIdle
    /\ LoadIdle

Locate ==
    /\ ~locator.asked
    /\ locator' = [locator EXCEPT
                      !.asked = TRUE,
                      !.result = record_offset(locator.records_info,
                                               [offset |-> locator.offset, text |-> <<>>])]
    /\ UNCHANGED <<cipherVars, lookupVars, loadVars>>

LocatorNext == Locate

SpecLocator == LocatorInit /\ [][LocatorNext]_vars

(***************************************************************************)
(* Lookups.  The record-data section holds up to MaxBlocks blocks, each     *)
(* well formed or with a payload byte flipped after its checksum was taken; *)
(* the record table is drawn apart from it, because load takes the table    *)
(* from the file without comparing it to the blocks.  The same file is      *)
(* opened twice, with the cache and without, and every lookup is made on    *)
(* both handles.                                                            *)
(***************************************************************************)
MaxBlocks == 2
MaxOffset == 4

Handles == {"cached", "plain"}
KeyTexts == {<<97>>, <<98>>}
AbsentText == <<99>>
KeyCounts == {1, 2}
BlockKinds == {"good", "flipped"}

\* the bytes before the record-data section
Preamble == <<255>>

RecordPayload(i) == <<63 + 2 * i, 64 + 2 * i>>
FlippedPayload(i) == <<63 + 2 * i, Xor(64 + 2 * i, 1)>>

\* a stored, unencrypted block: encoding word 0, Adler-32 of the payload
Block(kind, i) ==
    <<0, 0, 0, 0>> \o adler32(RecordPayload(i))
        \o (IF kind = "flipped" THEN FlippedPayload(i) ELSE RecordPayload(i))

BlockLen == Len(Block("good", 1))
PayloadLen == Len(RecordPayload(1))

RECURSIVE Concat(_)
Concat(ss) == IF ss = <<>> THEN <<>> ELSE Head(ss) \o Concat(Tail(ss))

\* what the record table may say of a block: its sizes, no compressed bytes,
\* too many decompressed bytes, too many compressed bytes
TableSizes ==
    {[compressed_size |-> BlockLen, decompressed_size |-> PayloadLen],
     [compressed_size |-> 0, decompressed_size |-> PayloadLen],
     [compressed_size |-> BlockLen, decompressed_size |-> 2 * PayloadLen],
     [compressed_size |-> BlockLen + PayloadLen, decompressed_size |-> PayloadLen]}

KeyEntries == {[offset |-> o, text |-> t] : o \in 0..MaxOffset, t \in KeyTexts}

IsSorted(entries) ==
    \A i \in 1..Len(entries) : \A j \in i..Len(entries) :
        TextLeq(entries[i].text, entries[j].text)

SortedKeyEntries ==
    {ke \in UNION {[1..n -> KeyEntries] : n \in KeyCounts} : IsSorted(ke)}

Opened(cache, ke, ri) ==
    [key_entries |-> ke, records_info |-> ri, record_block_offset |-> Len(Preamble),
     pos |-> Len(Preamble),
     record_cache |-> IF cache THEN EmptyCache ELSE NoCache]

LookupInit ==
    /\ \E n \in 1..MaxBlocks :
        \E kinds \in [1..n -> BlockKinds], ri \in [1..n -> TableSizes],
           ke \in SortedKeyEntries :
            /\ file = Preamble \o Concat([i \in 1..n |-> Block(kinds[i], i)])
            /\ mdx = [h \in Handles |-> Opened(h = "cached", ke, ri)]
    /\ last = [key |-> <<>>, idx |-> 0, off |-> NoOffset, res |-> [h \in Handles |-> None]]
    /\ hist = [calls |-> FALSE, failed |-> FALSE, served |-> FALSE]
    /\ CipherIdle
    /\ LocatorIdle
    /\ LoadIdle

Aborted == \E h \in Handles : last.res[h].tag = "Panic"

\* lookup(k) on both handles; a panic ends the program
Lookup(k) ==
    /\ ~Aborted
    /\ \E idx \in binary_search(mdx["cached"].key_entries, k) :
        LET out == [h \in Handles |-> lookup_record(file, mdx[h], idx)]
        IN /\ mdx' = [h \in Handles |-> out[h].mdx]
           /\ last' = [key |-> k, idx |-> idx, off |-> out["cached"].off,
                       res |-> [h \in Handles |-> out[h].res]]
           /\ hist' = [calls |-> TRUE,
                       failed |-> hist.failed \/
                                  (hist.calls /\ \E h \in Handles :
                                        last.res[h] = Err("InvalidCheckSum")),
                       served |-> hist.served \/
                                  (hist.calls /\ \E h \in Handles :
                                        last.res[h].tag = "Some")]
    /\ UNCHANGED <<file, cipherVars, locator, loadVars>>

LookupNext == \E k \in KeyTexts \cup {AbsentText} : Lookup(k)

Spec == LookupInit /\ [][LookupNext]_vars

(***************************************************************************)
(* Loading.  A file is written from key texts (split into key blocks, the   *)
(* i-th record 2 bytes long at offset 2 (i - 1)) and then loaded.  Three     *)
(* families of files: well-formed ones of every content, files of every     *)
(* Encrypted attribute with the info payload encrypted or not, and files    *)
(* in which one size says more bytes than there are.                        *)
(***************************************************************************)
MaxKeys == 3

Versions == {"V1", "V2"}
KeyMakers == {"keep", "fold"}
EncryptedAttrs == {"", "Yes", "No", "0", "1", "2", "3"}
LoadTexts == {<<97>>, <<66>>, <<97, 97>>}
Faults == {"block_info_size", "key_block_size", "compressed_size", "key_text_len"}
Excesses == {1, 60}

\* n as w big-endian bytes
be(n, w) ==
    LET RECURSIVE go(_, _)
        go(i, v) == IF i = 0 THEN <<>> ELSE Append(go(i - 1, v \div 256), v % 256)
    IN go(w, n)

Width(version) == IF version = "V1" THEN 4 ELSE 8

WrittenEntries(texts) == [i \in 1..Len(texts) |-> [offset |-> 2 * (i - 1), text |-> texts[i]]]

\* a stored key block: (offset, text, NUL) for each entry
KeyBlockBytes(version, entries) ==
    LET payload == Concat([i \in 1..Len(entries) |->
                            be(entries[i].offset, Width(version)) \o entries[i].text \o <<0>>])
    IN <<0, 0, 0, 0>> \o adler32(payload) \o payload

\* a row of the key-block info table; `more` is added to the first key's length
InfoRow(version, entries, compressed_size, more) ==
    LET first == entries[1].text
        final == entries[Len(entries)].text
        w == Width(version)
    IN IF version = "V1"
       THEN be(Len(entries), w) \o be(Len(first) + more, 1) \o first
                \o be(Len(final), 1) \o final
                \o be(compressed_size, w) \o be(compressed_size - 8, w)
       ELSE be(Len(entries), w) \o be(Len(first) + more, 2) \o first \o <<0>>
                \o be(Len(final), 2) \o final \o <<0>>
                \o be(compressed_size, w) \o be(compressed_size - 8, w)

\* a zlib stream of one stored block
ZlibStored(d) ==
    <<120, 1, 1>> \o <<Len(d) % 256, Len(d) \div 256>>
        \o <<(65535 - Len(d)) % 256, (65535 - Len(d)) \div 256>> \o d \o adler32(d)

InfoBlob(version, table, encrypt) ==
    IF version = "V1" THEN table
    ELSE <<2, 0, 0, 0>> \o adler32(table)
            \o (IF encrypt THEN fast_encrypt(ZlibStored(table), info_key(adler32(table)))
                ELSE ZlibStored(table))

RecordIndex(version, n) ==
    LET w == Width(version)
    IN be(1, w) \o be(n, w) \o be(2 * w, w) \o be(8 + 2 * n, w)
        \o be(8 + 2 * n, w) \o be(2 * n, w)

\* texts cut into key blocks: all in one, or two blocks cut after the k-th
Cuts(texts) ==
    {<<WrittenEntries(texts)>>}
        \cup {<<SubSeq(WrittenEntries(texts), 1, k),
                SubSeq(WrittenEntries(texts), k + 1, Len(texts))>> : k \in 1..(Len(texts) - 1)}

Written(version, attr, maker, cache, blocks, encrypt, fault, excess) ==
    LET nb == Len(blocks)
        keydata == [i \in 1..nb |-> KeyBlockBytes(version, blocks[i])]
        table == Concat([i \in 1..nb |->
                    InfoRow(version, blocks[i],
                            Len(keydata[i])
                                + (IF fault = "compressed_size" /\ i = nb THEN excess ELSE 0),
                            IF fault = "key_text_len" /\ i = nb THEN 200 + excess ELSE 0)])
        info == InfoBlob(version, table, encrypt)
        keys == Concat(keydata)
        n == Len(Concat(blocks))
        tail == RecordIndex(version, n) \o <<0, 0, 0, 0>> \o adler32([i \in 1..(2 * n) |-> 64 + i])
                    \o [i \in 1..(2 * n) |-> 64 + i]
        rest == info \o keys \o tail
    IN [version |-> version, encrypted_attr |-> attr, encoding |-> "UTF_8",
        key_maker |-> maker, cache |-> cache,
        block_info_size |-> IF fault = "block_info_size" THEN Len(rest) + excess ELSE Len(info),
        key_block_size |-> IF fault = "key_block_size"
                           THEN Len(keys) + Len(tail) + excess ELSE Len(keys),
        rest |-> rest,
        written |-> Concat(blocks),
        info_encrypted |-> encrypt /\ version = "V2",
        fault |-> fault]

SampleBlocks == <<WrittenEntries(<<<<66>>>>), [i \in 1..1 |-> [offset |-> 2, text |-> <<97>>]]>>

ContentInputs ==
    {Written(v, "", m, TRUE, blocks, FALSE, "none", 0) :
        v \in Versions, m \in KeyMakers,
        blocks \in UNION {Cuts(t) : t \in SeqsUpTo(LoadTexts, MaxKeys) \ {<<>>}}}

FlagInputs ==
    {Written(v, a, "keep", c, SampleBlocks, e, "none", 0) :
        v \in Versions, a \in EncryptedAttrs, c \in BOOLEAN, e \in BOOLEAN}

SizeInputs ==
    {Written(v, a, "keep", TRUE, SampleBlocks, a = "2", f, x) :
        v \in Versions, a \in {"", "2"}, f \in Faults, x \in Excesses}

Pending == [tag |-> "Pending", err |-> "", mdx |-> NoMdx, info_decrypted |-> "unread"]

LoadInit ==
    /\ input \in ContentInputs \cup FlagInputs \cup SizeInputs
    /\ outcome = Pending
    /\ CipherIdle
    /\ LookupIdle
    /\ LocatorIdle

Load ==
    /\ outcome = Pending
    /\ outcome' = load(input)
    /\ UNCHANGED <<input, cipherVars, lookupVars, locator>>

LoadNext == Load

SpecLoad == LoadInit /\ [][LoadNext]_vars

(***************************************************************************)
(* What the last lookup was about, read from the file itself.               *)
(***************************************************************************)
LastEntry == mdx["cached"].key_entries[last.idx]
Hit == last.idx # 0 /\ last.off.found

\* the bytes of the file the table row of the located block points at
Window ==
    SubSeq(file, Len(Preamble) + last.off.buf_offset + 1,
           Len(Preamble) + last.off.buf_offset + last.off.record_size)

\* those bytes are all in the file and are a stored, unencrypted block
Stored ==
    /\ Len(Preamble) + last.off.buf_offset + last.off.record_size <= Len(file)
    /\ last.off.record_size >= 8
    /\ Window[1] = 0

Payload == Drop(Window, 8)
ChecksumOk == adler32(Payload) = SubSeq(Window, 5, 8)

\* the block is a stored block with the right checksum and of the size the
\* table gives it, and the entry lies in it
WellFormed == Stored /\ ChecksumOk /\ Len(Payload) = last.off.decomp_size

\* the logical offset at which the located block starts, and the offset of
\* the next record: the least entry offset after this entry's, or the block's end
BlockStart == LastEntry.offset - last.off.block_offset
NextRecord ==
    LET later == {mdx["cached"].key_entries[i].offset : i \in 1..Len(mdx["cached"].key_entries)}
                    \cap ((LastEntry.offset + 1)..(BlockStart + Len(Payload) - 1))
    IN IF later = {} THEN BlockStart + Len(Payload)
       ELSE CHOOSE o \in later : \A p \in later : o <= p

\* C1: lookup of a key present in the index returns the bytes of exactly one
\* record, from the key's offset up to (not including) the offset of the next
\* record of the block; lookup of a key absent from the index returns nothing.
C1_ExactlyOneRecord ==
    hist.calls =>
        \A h \in Handles :
            /\ last.idx = 0 => last.res[h] = None
            /\ (Hit /\ WellFormed) =>
                    last.res[h] = Some(SubSeq(Payload, last.off.block_offset + 1,
                                              NextRecord - BlockStart))

\* C2: a handle with the record cache and a handle without it return the same
\* outcome for every call of any sequence of lookups on the same file.
C2_CacheTransparent ==
    last.res["cached"] = last.res["plain"]

C5_Step ==
    \A h \in Handles :
        LET old == mdx[h].record_cache
            new == mdx'[h].record_cache
            added == DOMAIN new.map \ DOMAIN old.map
        IN /\ mdx'[h].key_entries = mdx[h].key_entries
           /\ mdx'[h].records_info = mdx[h].records_info
           /\ mdx'[h].record_block_offset = mdx[h].record_block_offset
           /\ new.some = old.some
           /\ \A b \in DOMAIN old.map : b \in DOMAIN new.map /\ new.map[b] = old.map[b]
           /\ last'.res[h].tag \in {"Err", "None"} => added = {}
           /\ last'.res[h].tag = "Some" =>
                /\ added \subseteq {last'.off.buf_offset}
                /\ \A b \in added :
                     /\ h = "cached"
                     /\ Stored' => new.map[b] = Payload'

C5_CacheInsertionOnly == [][C5_Step]_vars

C5_Witness ==
    /\ hist.served
    /\ DOMAIN mdx["cached"].record_cache.map # {}
    /\ last.res["cached"].tag = "Err"
    /\ last.off.block_offset > 0

(***************************************************************************)
(* The locator's answer, stated from the table by sums.                     *)
(***************************************************************************)
RECURSIVE SumDecompressed(_, _)
SumDecompressed(r, n) ==
    IF n = 0 THEN 0 ELSE SumDecompressed(r, n - 1) + r[n].decompressed_size

RECURSIVE SumCompressed(_, _)
SumCompressed(r, n) ==
    IF n = 0 THEN 0 ELSE SumCompressed(r, n - 1) + r[n].compressed_size

Covering(r, o) ==
    {i \in 1..Len(r) :
        SumDecompressed(r, i - 1) <= o /\ o < SumDecompressed(r, i)}

\* C8: record_offset returns the first block of the table whose range covers
\* the offset; block_offset is the offset less the decompressed sizes of the
\* earlier blocks and is below decomp_size, buf_offset is the sum of the
\* compressed sizes of the earlier blocks, and the answer is nothing exactly
\* when the offset is at or past the total of the decompressed sizes.
C8_LocatorCovers ==
    locator.asked =>
        LET r == locator.records_info
            o == locator.offset
            res == locator.result
        IN /\ res.found <=> o < SumDecompressed(r, Len(r))
           /\ res.found =>
                \E i \in Covering(r, o) :
                    /\ \A j \in Covering(r, o) : i <= j
                    /\ res.block_offset = o - SumDecompressed(r, i - 1)
                    /\ res.block_offset < res.decomp_size
                    /\ res.buf_offset = SumCompressed(r, i - 1)
                    /\ res.record_size = r[i].compressed_size
                    /\ res.decomp_size = r[i].decompressed_size

C8_Witness ==
    /\ locator.asked
    /\ locator.result.found
    /\ locator.result.buf_offset > 0
    /\ locator.result.block_offset > 0
    /\ locator.records_info[1].decompressed_size > 0

\* C10 as stated: applying the fast cipher twice with the same key gives back
\* the input, fast_cipher(fast_cipher(x, k), k) = x.
C10_CipherIsInvolution ==
    Len(passes) = 2 => passes[2] = plain

\* C10 amended: the fast cipher is not its own inverse; it is the inverse of
\* the transform out[i] = rot(b[i] ^ prev ^ i ^ k[i mod |k|]) chained on the
\* previous output byte, so encrypting its output gives back its input and its
\* output has the input's length.
C10_CipherInvertsEncrypt ==
    Len(passes) >= 1 =>
        /\ Len(passes[1]) = Len(plain)
        /\ fast_encrypt(passes[1], key) = plain
        /\ fast_decrypt(fast_encrypt(plain, key), key) = plain

C10_Witness ==
    /\ Len(passes) = 2
    /\ Len(plain) = MaxCipherLen
    /\ Len(key) = 2
    /\ passes[1] # plain

(***************************************************************************)
(* Claims about load (SpecLoad).                                           *)
(***************************************************************************)

\* the entries the key blocks of the input hold, in file order, with the
\* texts normalised by the caller's key maker
ParsedEntries ==
    [i \in 1..Len(input.written) |->
        [offset |-> input.written[i].offset,
         text |-> key_maker_make(input.key_maker, input.written[i].text)]]

Count(entries, e) == Cardinality({i \in 1..Len(entries) : entries[i] = e})

SameMultiset(a, b) ==
    /\ Len(a) = Len(b)
    /\ \A i \in 1..Len(a) : Count(a, a[i]) = Count(b, a[i])

\* C6: whenever load succeeds, key_entries is sorted ascending by normalised
\* text under byte-wise lexicographic comparison, whatever the order in the
\* key blocks, and it holds exactly the entries of the key blocks, duplicates
\* included (equal as multisets of (offset, text)).
C6_SortedIndex ==
    outcome.tag = "Ok" =>
        /\ IsSorted(outcome.mdx.key_entries)
        /\ SameMultiset(outcome.mdx.key_entries, ParsedEntries)

C6_Witness ==
    /\ outcome.tag = "Ok"
    /\ Len(outcome.mdx.key_entries) = MaxKeys
    /\ ~IsSorted(ParsedEntries)
    /\ outcome.mdx.key_entries # ParsedEntries
    /\ \E i \in 1..MaxKeys : \E j \in 1..MaxKeys :
            /\ i < j
            /\ outcome.mdx.key_entries[i].text = outcome.mdx.key_entries[j].text
            /\ outcome.mdx.key_entries[i].offset # outcome.mdx.key_entries[j].offset

\* C7: when a size read from the file (block_info_size, key_block_size, a key
\* block's compressed_size, a key-text length of the info table) exceeds the
\* bytes available, load returns the InvalidData error as a value: neither a
\* handle, nor another error kind, nor a panic.
C7_OversizedIsInvalidData ==
    (input.fault # "none" /\ outcome.tag # "Pending") =>
        (outcome.tag = "Err" /\ outcome.err = "InvalidData")

\* bit 1 (value 2) of the header's encrypted bitfield
Bit1(n) == (n \div 2) % 2 = 1

\* C9: in a V2 file the key-block-info payload is passed through the fast
\* cipher before zlib exactly when bit 1 of header.encrypted is set, for every
\* value of the bitfield, and goes to zlib as it is exactly when bit 1 is clear.
C9_DecryptsIffBit1 ==
    (input.version = "V2" /\ outcome.info_decrypted # "unread") =>
        ((outcome.info_decrypted = "yes") <=> Bit1(read_header(input).encrypted))

====
